---- MODULE Spec2Model ----
(***************************************************************************)
(* Model of the real-time chatbot dashboard.                                *)
(*                                                                         *)
(*   collector.py  AnalyticsCollector: four daemon threads, one per metric, *)
(*                 each an endless try/except tick loop that updates a      *)
(*                 running value, SETs it in Redis and inserts a sample     *)
(*                 into its MongoDB collection.                             *)
(*   app.py        five Dash callbacks that read Redis / MongoDB and build  *)
(*                 the stat cards and the figures.                          *)
(*                                                                         *)
(* Instants are minutes since a Monday 00:00.  Money is kept in cents       *)
(* (fixed point), so random.uniform(0.05, 0.15) draws from 5..15 cents.     *)
(***************************************************************************)
EXTENDS Integers, Sequences, FiniteSets, TLC

VARIABLES
    now,            \* the wall clock, datetime.now()
    message_count,  \* self.message_count
    active_users,   \* self.active_users
    api_cost,       \* self.api_cost (cents)
    rate_limit,     \* self.rate_limit
    messages,       \* local of collect_messages: the delta of the current tick
    rate_change,    \* local of collect_rate_limits: the delta of the current tick
    cost_increment, \* local of collect_api_costs: the delta of the current tick
    pc,             \* position of each collector thread
    redis,          \* Redis db 0: key -> bytes, or None
    message_logs,   \* db.message_logs, in insertion order
    user_activity,  \* db.user_activity
    api_costs,      \* db.api_costs
    rate_limits,    \* db.rate_limits
    response,       \* what the last Dash callback returned (or its error)
    ticks_left      \* per collector thread, the ticks it may still start in this run

vars == <<now, message_count, active_users, api_cost, rate_limit, messages,
          rate_change, cost_increment, pc, redis, message_logs, user_activity,
          api_costs, rate_limits, response, ticks_left>>

running == <<message_count, active_users, api_cost, rate_limit>>
locals == <<messages, rate_change, cost_increment>>
mongo == <<message_logs, user_activity, api_costs, rate_limits>>

-----------------------------------------------------------------------------
(* Bounds of the model.                                                    *)

\* Samples a collection holds before its collector stops ticking.
MaxDocs == 2
\* Ticks the four collectors start, in all, in a run of the whole system.
MaxTicks == 2
\* Ticks of a run in which one collector is scheduled alone.
SoloTicks == 2
\* Ticks of a run in which the rate-limit collector is scheduled alone
\* (four ticks of -5 take the quota from 100 to 80, the fifth is clamped).
RateTicks == 5
\* Ticks of a run that starts at an arbitrary hour of the week.
BandTicks == 1

-----------------------------------------------------------------------------
(* Time.                                                                   *)

MinutesPerHour == 60
HoursPerDay == 24
DaysPerWeek == 7
MinutesPerDay == MinutesPerHour * HoursPerDay

\* An instant d days, h hours and m minutes after Monday 00:00.
At(d, h, m) == d * MinutesPerDay + h * MinutesPerHour + m

\* datetime.hour
Hour(t) == (t \div MinutesPerHour) % HoursPerDay

\* datetime.weekday(): Monday is 0, Sunday is 6
Weekday(t) == (t \div MinutesPerDay) % DaysPerWeek

-----------------------------------------------------------------------------
(* Collector: the generation model.                                        *)

Threads == {"messages", "users", "costs", "rates"}


\* random.randint(a, b): both ends included
randint(a, b) == a..b

\* random.uniform(a, b) on the cent grid: both ends included
uniform(a, b) == a..b

\* the chain with business hours ending before 17:00: 9 <= hour < 17
band_until_17(hour) ==
    IF 9 <= hour /\ hour < 17 THEN "business"
    ELSE IF 18 <= hour /\ hour <= 22 THEN "evening"
    ELSE "off"

\* the if / elif / else chain on the hour that every collector opens with
band(hour) ==
    IF 9 <= hour /\ hour <= 17 THEN "business"
    ELSE IF 18 <= hour /\ hour <= 22 THEN "evening"
    ELSE "off"

messages_draw(hour) ==
    IF band(hour) = "business" THEN randint(5, 15)
    ELSE IF band(hour) = "evening" THEN randint(8, 20)
    ELSE randint(0, 5)

cost_draw(hour) ==
    IF band(hour) = "business" THEN uniform(5, 15)
    ELSE IF band(hour) = "evening" THEN uniform(8, 20)
    ELSE uniform(2, 8)

rate_draw(hour) ==
    IF band(hour) = "business" THEN randint(0 - 3, 1)
    ELSE IF band(hour) = "evening" THEN randint(0 - 5, 0)
    ELSE randint(0, 2)

\* the weekend cut by 70% instead of to 70%: int(base_users * 0.3)
base_users_cut_by_70(hour, day) ==
    LET base == IF band(hour) = "business" THEN 20
                ELSE IF band(hour) = "evening" THEN 30
                ELSE 10
    IN  IF day >= 5 THEN (base * 3) \div 10 ELSE base

\* base_users by the hour's band, int(base_users * 0.7) on Saturday and Sunday
base_users(hour, day) ==
    LET base == IF band(hour) = "business" THEN 20
                ELSE IF band(hour) = "evening" THEN 30
                ELSE 10
    IN  IF day >= 5 THEN (base * 7) \div 10 ELSE base

Max(a, b) == IF a >= b THEN a ELSE b
Min(a, b) == IF a <= b THEN a ELSE b

\* the clamp without its floor: min(100, ...) alone
clamp_rate_no_floor(v) == Min(100, v)

\* max(80, min(100, self.rate_limit + rate_change))
clamp_rate(v) == Max(80, Min(100, v))

-----------------------------------------------------------------------------
(* Redis values.  redis-py sends an int or a float as the bytes of its      *)
(* repr and GET returns those bytes (None for an absent key).               *)

DigitChars == <<"0", "1", "2", "3", "4", "5", "6", "7", "8", "9">>

RECURSIVE Digits(_)
\* the decimal digits of n >= 0
Digits(n) ==
    IF n < 10 THEN <<DigitChars[n + 1]>>
    ELSE Append(Digits(n \div 10), DigitChars[(n % 10) + 1])

\* repr(n).encode() of an int
encode_int(n) == IF n < 0 THEN <<"-">> \o Digits(0 - n) ELSE Digits(n)

\* repr(x).encode() of a non-negative float of c cents: 10 -> 0.1, 25 -> 0.25,
\* 100 -> 1.0
encode_float(c) ==
    Digits(c \div 100) \o <<".">> \o
        (IF c % 10 = 0 THEN Digits((c % 100) \div 10)
         ELSE <<DigitChars[((c % 100) \div 10) + 1], DigitChars[(c % 10) + 1]>>)

Keys == {"total_messages", "active_users", "api_cost", "rate_limit"}

\* GET of an absent key returns None.  The only use of the result is
\* `get(key) or default`, which takes None and b'' alike: None is the empty
\* sequence here, and no collector writes empty bytes.
None == <<>>

\* a SET that rewrites the whole snapshot, dropping the other keys
redis_set_alone(store, key, bytes) == [k \in Keys |-> IF k = key THEN bytes ELSE None]

\* SET with nx=True: a key that is present keeps its value
redis_set_nx(store, key, bytes) ==
    IF store[key] = None THEN [store EXCEPT ![key] = bytes] ELSE store

\* redis_client.set(key, value)
redis_set(store, key, bytes) == [store EXCEPT ![key] = bytes]

\* redis_client.get(key)
redis_get(store, key) == store[key]

-----------------------------------------------------------------------------
(* Collector: the four tick loops.  A tick is two steps, one per store      *)
(* write: the first reads the clock, draws the delta, updates the running   *)
(* value and SETs the Redis key; the second reads the clock again and       *)
(* inserts the sample.  Either write can raise; the except clause logs,     *)
(* sleeps and the loop goes on.                                             *)
(*                                                                         *)
(* A run explores a part of each draw's range: all of it ("any"), or its    *)
(* two ends ("ends").                                                       *)

EndsOf(S) == {x \in S : (\A y \in S : x <= y) \/ (\A y \in S : x >= y)}

Drawn(S, part) == IF part = "ends" THEN EndsOf(S) ELSE S

\* the try around the loop instead of inside it: an exception ends the thread
exit_on_except == "dead"

\* the body of the except clause: logger.error, time.sleep(5), next iteration
after_except == "tick"

\* the counter assigned, not added to: self.message_count = messages
assign_messages(count, delta) == delta

\* self.message_count += messages
add_messages(count, delta) == count + delta

\* self.api_cost += cost_increment
add_cost(cost, delta) == cost + delta

\* an upsert of the latest sample in place of an insert
replace_one(collection, doc) == <<doc>>

\* insert_one: the collection with the document appended
insert_one(collection, doc) == Append(collection, doc)

\* a thread starts a tick: the budget of the run, and room in its collection
may_tick(t, collection) ==
    /\ pc[t] = "tick"
    /\ Len(collection) < MaxDocs
    /\ ticks_left[t] > 0
    /\ ticks_left' = [ticks_left EXCEPT ![t] = @ - 1]

collect_messages_set(part) ==
    /\ may_tick("messages", message_logs)
    /\ \E delta \in Drawn(messages_draw(Hour(now)), part), ok \in BOOLEAN :
        /\ messages' = delta
        /\ message_count' = add_messages(message_count, delta)
        /\ IF ok
           THEN /\ redis' = redis_set(redis, "total_messages", encode_int(message_count'))
                /\ pc' = [pc EXCEPT !["messages"] = "insert"]
           ELSE /\ redis' = redis
                /\ pc' = [pc EXCEPT !["messages"] = "except"]
    /\ UNCHANGED <<now, active_users, api_cost, rate_limit, rate_change,
                   cost_increment, mongo, response>>

collect_messages_insert ==
    /\ pc["messages"] = "insert"
    /\ \E ok \in BOOLEAN :
        IF ok
        THEN /\ message_logs' = insert_one(message_logs,
                                    [timestamp |-> now, count |-> messages])
             /\ pc' = [pc EXCEPT !["messages"] = "tick"]
        ELSE /\ message_logs' = message_logs
             /\ pc' = [pc EXCEPT !["messages"] = "except"]
    /\ UNCHANGED <<now, running, locals, redis, user_activity, api_costs,
                   rate_limits, response, ticks_left>>

collect_user_activity_set(part) ==
    /\ may_tick("users", user_activity)
    /\ \E noise \in Drawn(randint(0 - 5, 5), part), ok \in BOOLEAN :
        /\ active_users' = base_users(Hour(now), Weekday(now)) + noise
        /\ IF ok
           THEN /\ redis' = redis_set(redis, "active_users", encode_int(active_users'))
                /\ pc' = [pc EXCEPT !["users"] = "insert"]
           ELSE /\ redis' = redis
                /\ pc' = [pc EXCEPT !["users"] = "except"]
    /\ UNCHANGED <<now, message_count, api_cost, rate_limit, locals, mongo,
                   response>>

collect_user_activity_insert ==
    /\ pc["users"] = "insert"
    /\ \E ok \in BOOLEAN :
        IF ok
        THEN /\ user_activity' = insert_one(user_activity,
                                    [timestamp |-> now, count |-> active_users])
             /\ pc' = [pc EXCEPT !["users"] = "tick"]
        ELSE /\ user_activity' = user_activity
             /\ pc' = [pc EXCEPT !["users"] = "except"]
    /\ UNCHANGED <<now, running, locals, redis, message_logs, api_costs,
                   rate_limits, response, ticks_left>>

collect_api_costs_set(part) ==
    /\ may_tick("costs", api_costs)
    /\ \E delta \in Drawn(cost_draw(Hour(now)), part), ok \in BOOLEAN :
        /\ cost_increment' = delta
        /\ api_cost' = add_cost(api_cost, delta)
        /\ IF ok
           THEN /\ redis' = redis_set(redis, "api_cost", encode_float(api_cost'))
                /\ pc' = [pc EXCEPT !["costs"] = "insert"]
           ELSE /\ redis' = redis
                /\ pc' = [pc EXCEPT !["costs"] = "except"]
    /\ UNCHANGED <<now, message_count, active_users, rate_limit, messages,
                   rate_change, mongo, response>>

collect_api_costs_insert ==
    /\ pc["costs"] = "insert"
    /\ \E ok \in BOOLEAN :
        IF ok
        THEN /\ api_costs' = insert_one(api_costs,
                                    [timestamp |-> now, cost |-> api_cost])
             /\ pc' = [pc EXCEPT !["costs"] = "tick"]
        ELSE /\ api_costs' = api_costs
             /\ pc' = [pc EXCEPT !["costs"] = "except"]
    /\ UNCHANGED <<now, running, locals, redis, message_logs, user_activity,
                   rate_limits, response, ticks_left>>

collect_rate_limits_set(part) ==
    /\ may_tick("rates", rate_limits)
    /\ \E delta \in Drawn(rate_draw(Hour(now)), part), ok \in BOOLEAN :
        /\ rate_change' = delta
        /\ rate_limit' = clamp_rate(rate_limit + delta)
        /\ IF ok
           THEN /\ redis' = redis_set(redis, "rate_limit", encode_int(rate_limit'))
                /\ pc' = [pc EXCEPT !["rates"] = "insert"]
           ELSE /\ redis' = redis
                /\ pc' = [pc EXCEPT !["rates"] = "except"]
    /\ UNCHANGED <<now, message_count, active_users, api_cost, messages,
                   cost_increment, mongo, response>>

collect_rate_limits_insert ==
    /\ pc["rates"] = "insert"
    /\ \E ok \in BOOLEAN :
        IF ok
        THEN /\ rate_limits' = insert_one(rate_limits,
                                    [timestamp |-> now, remaining |-> rate_limit])
             /\ pc' = [pc EXCEPT !["rates"] = "tick"]
        ELSE /\ rate_limits' = rate_limits
             /\ pc' = [pc EXCEPT !["rates"] = "except"]
    /\ UNCHANGED <<now, running, locals, redis, message_logs, user_activity,
                   api_costs, response, ticks_left>>

\* except Exception as e: logger.error(...); time.sleep(5); back to `while True`
collector_except(t) ==
    /\ pc[t] = "except"
    /\ pc' = [pc EXCEPT ![t] = after_except]
    /\ UNCHANGED <<now, running, locals, redis, mongo, response, ticks_left>>

-----------------------------------------------------------------------------
(* The wall clock moves forward through the instants of the model: a        *)
(* Friday in business hours, in the evening peak and in the off hours.      *)

Instants == { At(4, 17, 30), At(4, 18, 30), At(4, 23, 30) }

\* the first two of them, for the runs of the whole system
PeakInstants == { At(4, 17, 30), At(4, 18, 30) }

\* a wall clock that is set back as well as forward
clock_jump(T) ==
    /\ \E t \in T : t # now /\ now' = t
    /\ UNCHANGED <<running, locals, pc, redis, mongo, response, ticks_left>>

\* datetime.now() read again later: the clock has not gone back
clock_advance(T) ==
    /\ \E t \in T : t > now /\ now' = t
    /\ UNCHANGED <<running, locals, pc, redis, mongo, response, ticks_left>>

-----------------------------------------------------------------------------
(* Dashboard: reading the snapshot (update_stats).                          *)

NoResponse == [callback |-> "none", status |-> "none"]

DigitValue(c) == CHOOSE i \in 0..9 : DigitChars[i + 1] = c

RECURSIVE ParseDigits(_)
ParseDigits(b) ==
    IF Len(b) = 0 THEN 0
    ELSE 10 * ParseDigits(SubSeq(b, 1, Len(b) - 1)) + DigitValue(b[Len(b)])

\* int(b) of the bytes of a decimal integer
parse_int(b) == IF b[1] = "-" THEN 0 - ParseDigits(Tail(b)) ELSE ParseDigits(b)

\* the index of the decimal point in b
PointAt(b) == CHOOSE i \in 1..Len(b) : b[i] = "."

\* float(b) of the bytes of a non-negative decimal, in cents
parse_float(b) ==
    LET p == PointAt(b)
        frac == SubSeq(b, p + 1, Len(b))
    IN  100 * ParseDigits(SubSeq(b, 1, p - 1))
          + (IF Len(frac) = 1 THEN 10 * ParseDigits(frac) ELSE ParseDigits(frac))

\* the same with every default 0: int(redis_client.get(key) or 0)
int_or_zero(bytes, default) == IF bytes = None THEN 0 ELSE parse_int(bytes)

\* int(redis_client.get(key) or default)
int_or(bytes, default) == IF bytes = None THEN default ELSE parse_int(bytes)

\* float(redis_client.get('api_cost') or 0), in cents
float_or(bytes, default) == IF bytes = None THEN 100 * default ELSE parse_float(bytes)

RECURSIVE Grouped(_)
\* the digits of n >= 0 with a comma before every group of three
Grouped(n) ==
    IF n < 1000 THEN Digits(n)
    ELSE Grouped(n \div 1000) \o <<",">> \o
         <<DigitChars[((n \div 100) % 10) + 1], DigitChars[((n \div 10) % 10) + 1],
           DigitChars[(n % 10) + 1]>>

\* f"{n:,}"
format_thousands(n) == IF n < 0 THEN <<"-">> \o Grouped(0 - n) ELSE Grouped(n)

\* f"${x:.2f}" of c >= 0 cents
format_money(c) ==
    <<"$">> \o Digits(c \div 100) \o <<".">> \o
        <<DigitChars[((c % 100) \div 10) + 1], DigitChars[(c % 10) + 1]>>

\* f"{n}%"
format_percent(n) == encode_int(n) \o <<"%">>

\* the four children update_stats returns
stats_of(store) ==
    LET total_messages == int_or(redis_get(store, "total_messages"), 0)
        users == int_or(redis_get(store, "active_users"), 0)
        cost == float_or(redis_get(store, "api_cost"), 0)
        limit == int_or(redis_get(store, "rate_limit"), 100)
    IN  [total_messages |-> format_thousands(total_messages),
         active_users |-> format_thousands(users),
         api_cost |-> format_money(cost),
         rate_limit |-> format_percent(limit)]

\* a callback that raised: Dash answers the request with an error
Raised(callback, error) == [callback |-> callback, status |-> "error", error |-> error]

dash_frame == <<now, running, locals, pc, redis, mongo, ticks_left>>

\* GETDEL in place of GET: the key is gone once it is read
after_getdel(store, key) == [store EXCEPT ![key] = None]

\* the store after redis_client.get(key): a read leaves it as it is
after_get(store, key) == store

\* the store after the four GETs of update_stats
after_stats(store) ==
    after_get(after_get(after_get(after_get(store, "total_messages"),
                                  "active_users"), "api_cost"), "rate_limit")

update_stats ==
    /\ \E up \in BOOLEAN :
        IF up
        THEN /\ response' = [callback |-> "update_stats", status |-> "ok",
                              children |-> stats_of(redis)]
             /\ redis' = after_stats(redis)
        ELSE /\ response' = Raised("update_stats", "ConnectionError")
             /\ redis' = redis
    /\ UNCHANGED <<now, running, locals, pc, mongo, ticks_left>>

-----------------------------------------------------------------------------
(* Dashboard: the queries over the trailing 24 hours.                       *)

\* {'timestamp': {'$gte': end_time - timedelta(hours=24), '$lte': end_time}}
in_window(doc, end_time) ==
    /\ doc.timestamp >= end_time - MinutesPerDay
    /\ doc.timestamp <= end_time

match_window(collection, end_time) ==
    SelectSeq(collection, LAMBDA doc : in_window(doc, end_time))

\* a query that removes what it returns (find_one_and_delete, delete_many)
after_find_and_delete(collection, end_time) ==
    SelectSeq(collection, LAMBDA doc : ~in_window(doc, end_time))

\* the collection after collection.find(query) or collection.aggregate of a
\* pipeline of $match, $group and $sort (no $out, no $merge): as it was
after_find(collection, end_time) == collection

\* $dateToString with format '%Y-%m-%d %H:00': the date and the hour, which
\* order as the string does
date_to_string(t) == <<t \div MinutesPerDay, Hour(t)>>

\* the order of two such strings
string_less(a, b) == a[1] < b[1] \/ (a[1] = b[1] /\ a[2] < b[2])

\* pd.to_datetime of such a string
to_datetime(id) == At(id[1], id[2], 0)

\* {'$sum': 1} over the documents of a group
group_sum(docs) == Len(docs)

\* the $group stage of update_message_volume: one document per hour string
group_by_hour(docs) ==
    { [_id |-> id,
       count |-> group_sum(SelectSeq(docs, LAMBDA d : date_to_string(d.timestamp) = id))]
      : id \in {date_to_string(docs[i].timestamp) : i \in 1..Len(docs)} }

RECURSIVE sort_by_id(_)
\* {'$sort': {'_id': 1}}
sort_by_id(groups) ==
    IF groups = {} THEN <<>>
    ELSE LET first == CHOOSE g \in groups :
                          \A h \in groups : h = g \/ string_less(g._id, h._id)
         IN  <<first>> \o sort_by_id(groups \ {first})

RECURSIVE sort_by_timestamp(_)
\* .sort('timestamp', 1): ascending, documents of one timestamp in stored order
sort_by_timestamp(docs) ==
    IF Len(docs) = 0 THEN <<>>
    ELSE LET i == CHOOSE j \in 1..Len(docs) :
                      /\ \A k \in 1..Len(docs) : docs[j].timestamp <= docs[k].timestamp
                      /\ \A k \in 1..(j - 1) : docs[k].timestamp > docs[j].timestamp
         IN  <<docs[i]>> \o
             sort_by_timestamp(SubSeq(docs, 1, i - 1) \o SubSeq(docs, i + 1, Len(docs)))

\* pd.DataFrame(results) has no columns when results is empty, and df[name]
\* of a missing column raises KeyError
has_column(results) == Len(results) > 0

\* the figure update_message_volume returns, or the exception it ends in
message_volume_figure(collection, end_time) ==
    LET results == sort_by_id(group_by_hour(match_window(collection, end_time)))
    IN  IF has_column(results)
        THEN [callback |-> "update_message_volume", status |-> "ok",
              x |-> [i \in 1..Len(results) |-> to_datetime(results[i]._id)],
              y |-> [i \in 1..Len(results) |-> results[i].count]]
        ELSE Raised("update_message_volume", "KeyError")

cost_figure(collection, end_time) ==
    LET results == sort_by_timestamp(match_window(collection, end_time))
    IN  IF has_column(results)
        THEN [callback |-> "update_cost_chart", status |-> "ok",
              x |-> [i \in 1..Len(results) |-> results[i].timestamp],
              y |-> [i \in 1..Len(results) |-> results[i].cost]]
        ELSE Raised("update_cost_chart", "KeyError")

rate_limit_figure(collection, end_time) ==
    LET results == sort_by_timestamp(match_window(collection, end_time))
    IN  IF has_column(results)
        THEN [callback |-> "update_rate_limit_chart", status |-> "ok",
              x |-> [i \in 1..Len(results) |-> results[i].timestamp],
              y |-> [i \in 1..Len(results) |-> results[i].remaining]]
        ELSE Raised("update_rate_limit_chart", "KeyError")

update_message_volume ==
    /\ \E up \in BOOLEAN :
        IF up
        THEN /\ response' = message_volume_figure(message_logs, now)
             /\ message_logs' = after_find(message_logs, now)
        ELSE /\ response' = Raised("update_message_volume", "ConnectionError")
             /\ message_logs' = message_logs
    /\ UNCHANGED <<now, running, locals, pc, redis, user_activity, api_costs, rate_limits,
                   ticks_left>>

update_cost_chart ==
    /\ \E up \in BOOLEAN :
        IF up
        THEN /\ response' = cost_figure(api_costs, now)
             /\ api_costs' = after_find(api_costs, now)
        ELSE /\ response' = Raised("update_cost_chart", "ConnectionError")
             /\ api_costs' = api_costs
    /\ UNCHANGED <<now, running, locals, pc, redis, message_logs, user_activity, rate_limits,
                   ticks_left>>

update_rate_limit_chart ==
    /\ \E up \in BOOLEAN :
        IF up
        THEN /\ response' = rate_limit_figure(rate_limits, now)
             /\ rate_limits' = after_find(rate_limits, now)
        ELSE /\ response' = Raised("update_rate_limit_chart", "ConnectionError")
             /\ rate_limits' = rate_limits
    /\ UNCHANGED <<now, running, locals, pc, redis, message_logs, user_activity, api_costs,
                   ticks_left>>

-----------------------------------------------------------------------------
(* Dashboard: the activity heatmap.                                         *)

\* MongoDB's $dayOfWeek: 1 is Sunday, 7 is Saturday
day_of_week(t) == ((Weekday(t) + 1) % DaysPerWeek) + 1

\* the $group stage of update_activity_heatmap: one document per (hour, day)
group_by_hour_and_day(docs) ==
    { [_id |-> id,
       count |-> group_sum(SelectSeq(docs, LAMBDA d :
                     [hour |-> Hour(d.timestamp), day |-> day_of_week(d.timestamp)] = id))]
      : id \in {[hour |-> Hour(docs[i].timestamp), day |-> day_of_week(docs[i].timestamp)]
                : i \in 1..Len(docs)} }

RECURSIVE Ascending(_)
\* the numbers of a set in ascending order
Ascending(S) ==
    IF S = {} THEN <<>>
    ELSE LET least == CHOOSE x \in S : \A y \in S : x <= y
         IN  <<least>> \o Ascending(S \ {least})

\* df.pivot(index='hour', columns='day', values='count').fillna(0).values:
\* a row per hour present, a column per day present, in ascending order
pivot_values(groups) ==
    LET hours == Ascending({g._id.hour : g \in groups})
        days == Ascending({g._id.day : g \in groups})
    IN  [i \in 1..Len(hours) |->
            [j \in 1..Len(days) |->
                LET cell == {g \in groups : g._id.hour = hours[i] /\ g._id.day = days[j]}
                IN  IF cell = {} THEN 0 ELSE (CHOOSE g \in cell : TRUE).count]]

DayLabels == <<"Mon", "Tue", "Wed", "Thu", "Fri", "Sat", "Sun">>

\* [f"{h:02d}:00" for h in range(24)], by the hour each label names
HourLabels == [i \in 1..HoursPerDay |-> i - 1]

heatmap_figure(collection, end_time) ==
    [callback |-> "update_activity_heatmap", status |-> "ok",
     z |-> pivot_values(group_by_hour_and_day(match_window(collection, end_time))),
     x |-> DayLabels,
     y |-> HourLabels]

update_activity_heatmap ==
    /\ \E up \in BOOLEAN :
        IF up
        THEN /\ response' = heatmap_figure(user_activity, now)
             /\ user_activity' = after_find(user_activity, now)
        ELSE /\ response' = Raised("update_activity_heatmap", "ConnectionError")
             /\ user_activity' = user_activity
    /\ UNCHANGED <<now, running, locals, pc, redis, message_logs, api_costs, rate_limits,
                   ticks_left>>

DashNext ==
    \/ update_stats
    \/ update_message_volume
    \/ update_cost_chart
    \/ update_rate_limit_chart
    \/ update_activity_heatmap

-----------------------------------------------------------------------------
(* Specifications of the collector.                                        *)

\* AnalyticsCollector.__init__ against empty stores
InitCollector ==
    /\ message_count = 0
    /\ active_users = 1
    /\ api_cost = 10
    /\ rate_limit = 100
    /\ messages = 0
    /\ rate_change = 0
    /\ cost_increment = 0
    /\ pc = [t \in Threads |-> "tick"]
    /\ redis = [k \in Keys |-> None]
    /\ message_logs = <<>>
    /\ user_activity = <<>>
    /\ api_costs = <<>>
    /\ rate_limits = <<>>
    /\ response = NoResponse

RECURSIVE SumOver(_, _)
SumOver(f, S) ==
    IF S = {} THEN 0
    ELSE LET x == CHOOSE y \in S : TRUE IN f[x] + SumOver(f, S \ {x})

\* the ways MaxTicks ticks are shared among the four threads
Shared(n) == {f \in [Threads -> 0..n] : SumOver(f, Threads) = n}

\* one thread is scheduled alone for n ticks
Alone(t, n) == [u \in Threads |-> IF u = t THEN n ELSE 0]

CollectorNext(part, T) ==
    \/ collect_messages_set(part)
    \/ collect_messages_insert
    \/ collect_user_activity_set(part)
    \/ collect_user_activity_insert
    \/ collect_api_costs_set(part)
    \/ collect_api_costs_insert
    \/ collect_rate_limits_set(part)
    \/ collect_rate_limits_insert
    \/ \E t \in Threads : collector_except(t)
    \/ clock_advance(T)

\* One collector thread runs alone, from any instant, over the whole range
\* of its draws.
InitSolo ==
    /\ InitCollector
    /\ now \in Instants
    /\ ticks_left \in {Alone(t, IF t = "rates" THEN RateTicks ELSE SoloTicks) : t \in Threads}

NextSolo == CollectorNext("any", Instants)

SpecSolo == InitSolo /\ [][NextSolo]_vars

\* One tick of one collector, started at any hour of any day of the week.
WeekHours == {At(d, h, 13) : d \in 0..(DaysPerWeek - 1), h \in 0..(HoursPerDay - 1)}

InitBands ==
    /\ InitCollector
    /\ now \in WeekHours
    /\ ticks_left \in {Alone(t, BandTicks) : t \in Threads}

NextBands ==
    \/ collect_messages_set("any")
    \/ collect_messages_insert
    \/ collect_user_activity_set("any")
    \/ collect_user_activity_insert
    \/ collect_api_costs_set("any")
    \/ collect_api_costs_insert
    \/ collect_rate_limits_set("any")
    \/ collect_rate_limits_insert
    \/ \E t \in Threads : collector_except(t)

SpecBands == InitBands /\ [][NextBands]_vars

\* The collector process alone, its four threads interleaving at one instant,
\* each drawing the ends of its ranges.  A thread that can take a step
\* eventually takes it.
InitShared ==
    /\ InitCollector
    /\ now \in PeakInstants
    /\ ticks_left \in Shared(MaxTicks)

NextCollector ==
    \/ collect_messages_set("ends")
    \/ collect_messages_insert
    \/ collect_user_activity_set("ends")
    \/ collect_user_activity_insert
    \/ collect_api_costs_set("ends")
    \/ collect_api_costs_insert
    \/ collect_rate_limits_set("ends")
    \/ collect_rate_limits_insert
    \/ \E t \in Threads : collector_except(t)

ThreadStep(t) ==
    \/ collector_except(t)
    \/ t = "messages" /\ (collect_messages_set("ends") \/ collect_messages_insert)
    \/ t = "users" /\ (collect_user_activity_set("ends") \/ collect_user_activity_insert)
    \/ t = "costs" /\ (collect_api_costs_set("ends") \/ collect_api_costs_insert)
    \/ t = "rates" /\ (collect_rate_limits_set("ends") \/ collect_rate_limits_insert)

FairCollector ==
    /\ InitShared
    /\ [][NextCollector]_vars
    /\ \A t \in Threads : WF_vars(ThreadStep(t))

\* The whole system: the collector process and the dashboard's callbacks.
\* A callback only reads, so its response is taken as sent before the next
\* step of a collector or the next callback.
respond ==
    /\ response # NoResponse
    /\ response' = NoResponse
    /\ UNCHANGED dash_frame

Init == InitShared

Next ==
    \/ response = NoResponse /\ collect_messages_set("ends")
    \/ response = NoResponse /\ collect_messages_insert
    \/ response = NoResponse /\ collect_user_activity_set("ends")
    \/ response = NoResponse /\ collect_user_activity_insert
    \/ response = NoResponse /\ collect_api_costs_set("ends")
    \/ response = NoResponse /\ collect_api_costs_insert
    \/ response = NoResponse /\ collect_rate_limits_set("ends")
    \/ response = NoResponse /\ collect_rate_limits_insert
    \/ response = NoResponse /\ \E t \in Threads : collector_except(t)
    \/ response = NoResponse /\ clock_advance(PeakInstants)
    \/ response = NoResponse /\ update_stats
    \/ response = NoResponse /\ update_message_volume
    \/ response = NoResponse /\ update_cost_chart
    \/ response = NoResponse /\ update_rate_limit_chart
    \/ response = NoResponse /\ update_activity_heatmap
    \/ respond

Spec == Init /\ [][Next]_vars

-----------------------------------------------------------------------------
(* The dashboard over stores a collector has filled.  The collections hold  *)
(* samples the collectors write (a draw of the band of their hour), in the  *)
(* order of their timestamps; the collector process is not scheduled.       *)

\* Samples of a collection.
MaxSamples == 3

\* Friday 09:13 and 09:47 (one hour), Friday 23:05, Saturday 09:13, Sunday 03:00
SampleInstants == { At(4, 9, 13), At(4, 9, 47), At(4, 23, 5), At(5, 9, 13), At(6, 3, 0) }

\* Query times: with Friday 09:13 on the edge of the window, just out of it,
\* and with every sample out of it
QueryInstants == { At(4, 9, 50), At(5, 9, 13), At(5, 9, 20), At(6, 3, 0), At(7, 12, 0) }

MessageDocs ==
    {[timestamp |-> t, count |-> c] : t \in SampleInstants, c \in {4, 6}}

ActivityDocs ==
    UNION {{[timestamp |-> t, count |-> base_users(Hour(t), Weekday(t)) + n] :
               n \in EndsOf(randint(0 - 5, 5))} : t \in SampleInstants}

CostDocs ==
    {[timestamp |-> t, cost |-> c] : t \in SampleInstants, c \in {15, 125}}

RateDocs ==
    {[timestamp |-> t, remaining |-> r] : t \in SampleInstants, r \in {80, 97}}

\* the sequences of at most MaxSamples documents one writer has inserted:
\* it sleeps between two ticks, so their timestamps are strictly ascending
Stored(Docs) ==
    UNION {{c \in [1..n -> Docs] :
               \A i \in 1..(n - 1) : c[i].timestamp < c[i + 1].timestamp}
           : n \in 0..MaxSamples}

Snapshots ==
    {f \in [Keys -> {None, encode_int(0), encode_int(7), encode_int(97),
                     encode_int(1234567), encode_float(10), encode_float(2505)}] :
        /\ f["total_messages"] \in {None, encode_int(0), encode_int(1234567)}
        /\ f["active_users"] \in {None, encode_int(7)}
        /\ f["api_cost"] \in {None, encode_float(10), encode_float(2505)}
        /\ f["rate_limit"] \in {None, encode_int(97)}}

InitDash ==
    /\ message_count = 0
    /\ active_users = 1
    /\ api_cost = 10
    /\ rate_limit = 100
    /\ messages = 0
    /\ rate_change = 0
    /\ cost_increment = 0
    /\ pc = [t \in Threads |-> "tick"]
    /\ ticks_left = [t \in Threads |-> 0]
    /\ response = NoResponse
    /\ now \in QueryInstants
    /\ \/ /\ message_logs \in Stored(MessageDocs)
          /\ user_activity = <<>> /\ api_costs = <<>> /\ rate_limits = <<>>
          /\ redis = [k \in Keys |-> None]
       \/ /\ user_activity \in Stored(ActivityDocs)
          /\ message_logs = <<>> /\ api_costs = <<>> /\ rate_limits = <<>>
          /\ redis = [k \in Keys |-> None]
       \/ /\ api_costs \in Stored(CostDocs)
          /\ message_logs = <<>> /\ user_activity = <<>> /\ rate_limits = <<>>
          /\ redis = [k \in Keys |-> None]
       \/ /\ rate_limits \in Stored(RateDocs)
          /\ message_logs = <<>> /\ user_activity = <<>> /\ api_costs = <<>>
          /\ redis = [k \in Keys |-> None]
       \/ /\ message_logs = <<>> /\ user_activity = <<>>
          /\ api_costs = <<>> /\ rate_limits = <<>>
          /\ redis \in Snapshots
    /\ \A c \in {message_logs, user_activity, api_costs, rate_limits} :
           \A i \in 1..Len(c) : c[i].timestamp <= now

SpecDash == InitDash /\ [][DashNext]_vars

-----------------------------------------------------------------------------
(* Properties.                                                             *)

Metric == [messages |-> "total_messages", users |-> "active_users",
           costs |-> "api_cost", rates |-> "rate_limit"]

RunningOf(m) ==
    CASE m = "messages" -> message_count
      [] m = "users" -> active_users
      [] m = "costs" -> api_cost
      [] m = "rates" -> rate_limit

CollectionOf(m) ==
    CASE m = "messages" -> message_logs
      [] m = "users" -> user_activity
      [] m = "costs" -> api_costs
      [] m = "rates" -> rate_limits

\* the bytes of a metric's running value, as its collector sends them
SnapshotOf(m) ==
    IF m = "costs" THEN encode_float(api_cost) ELSE encode_int(RunningOf(m))

\* the sample a successful tick of a metric inserts at instant t
SampleOf(m, t) ==
    CASE m = "messages" -> [timestamp |-> t, count |-> messages]
      [] m = "users" -> [timestamp |-> t, count |-> active_users]
      [] m = "costs" -> [timestamp |-> t, cost |-> api_cost]
      [] m = "rates" -> [timestamp |-> t, remaining |-> rate_limit]

Extends(later, earlier) ==
    /\ Len(later) >= Len(earlier)
    /\ SubSeq(later, 1, Len(earlier)) = earlier

Ok(callback) == response.callback = callback /\ response.status = "ok"

StoreDown == response.status = "error" /\ response.error = "ConnectionError"

\* C1: from rate_limit = 100, after any ticks of collect_rate_limits (any
\* band, any draw, failed writes included) the running rate_limit, the value
\* under the 'rate_limit' key and every 'remaining' sample lie in [80, 100].
C1_RateLimitClamped ==
    /\ rate_limit \in 80..100
    /\ redis["rate_limit"] # None => parse_int(redis["rate_limit"]) \in 80..100
    /\ \A i \in 1..Len(rate_limits) : rate_limits[i].remaining \in 80..100

\* the quota fell to 80, a further draw of -5 was clamped, and both stores
\* hold 80
C1_Witness ==
    /\ rate_limit = 80
    /\ rate_change = 0 - 5
    /\ ticks_left["rates"] = 0
    /\ redis["rate_limit"] = encode_int(80)
    /\ Len(rate_limits) = 2
    /\ rate_limits[1].remaining = 80
    /\ rate_limits[2].remaining = 80

\* C2: message_count starts at 0 and api_cost at 0.10, and neither ever
\* decreases from one step to the next, whether the tick's writes succeed or
\* fail.
C2_CountersNeverDecrease ==
    /\ message_count = 0 /\ api_cost = 10
    /\ [][message_count' >= message_count /\ api_cost' >= api_cost]_vars

\* two ticks of collect_messages, one of which failed on a write after it
\* had advanced the counter
C2_Witness ==
    /\ ticks_left["messages"] = 0
    /\ pc["messages"] = "tick"
    /\ Len(message_logs) = 1
    /\ message_count > message_logs[1].count

DocumentedBands == {"business", "evening", "off"}

DocumentedHours(b) ==
    CASE b = "business" -> 9..17
      [] b = "evening" -> 18..22
      [] b = "off" -> (0..8) \cup {23}

DocumentedRange(m, b) ==
    CASE m = "messages" /\ b = "business" -> 5..15
      [] m = "messages" /\ b = "evening" -> 8..20
      [] m = "messages" /\ b = "off" -> 0..5
      [] m = "rates" /\ b = "business" -> (0 - 3)..1
      [] m = "rates" /\ b = "evening" -> (0 - 5)..0
      [] m = "rates" /\ b = "off" -> 0..2
      [] m = "costs" /\ b = "business" -> 5..15
      [] m = "costs" /\ b = "evening" -> 8..20
      [] m = "costs" /\ b = "off" -> 2..8

Ticked(m) == ticks_left'[m] < ticks_left[m]

\* C3: at every hour the collectors are in exactly one band, the documented
\* one (business 09-17, evening 18-22, off otherwise), and the delta a tick
\* draws lies within that band's documented bounds.
C3_DeltasWithinBand ==
    [][LET h == Hour(now)
           bands == {b \in DocumentedBands : h \in DocumentedHours(b)}
       IN  /\ bands = {band(h)}
           /\ Ticked("messages") => messages' \in DocumentedRange("messages", band(h))
           /\ Ticked("rates") => rate_change' \in DocumentedRange("rates", band(h))
           /\ Ticked("costs") => cost_increment' \in DocumentedRange("costs", band(h))
      ]_vars

\* a tick of collect_messages in the last business hour drew the top of the
\* business range
C3_Witness ==
    /\ Hour(now) = 17
    /\ pc["messages"] = "insert"
    /\ messages = 15

HourStart(t) == t - (t % MinutesPerHour)

RECURSIVE SumOfCounts(_)
SumOfCounts(docs) ==
    IF Len(docs) = 0 THEN 0 ELSE docs[1].count + SumOfCounts(Tail(docs))

\* C4: update_message_volume yields one bucket per distinct hour of the
\* in-window samples, in ascending order, each holding the sum of the 'count'
\* fields of the samples of its hour.
C4_BucketsSumCounts ==
    Ok("update_message_volume") =>
        LET docs == SelectSeq(message_logs, LAMBDA d :
                        d.timestamp >= now - MinutesPerDay /\ d.timestamp <= now)
            hours == {HourStart(docs[i].timestamp) : i \in 1..Len(docs)}
        IN  /\ Len(response.x) = Cardinality(hours)
            /\ \A i \in 1..Len(response.x) : response.x[i] \in hours
            /\ \A i \in 1..(Len(response.x) - 1) : response.x[i] < response.x[i + 1]
            /\ \A i \in 1..Len(response.x) :
                   response.y[i] = SumOfCounts(SelectSeq(docs, LAMBDA d :
                                       HourStart(d.timestamp) = response.x[i]))

\* C5: the heatmap's grid has 24 hour rows and 7 day columns (Monday first),
\* and every cell without samples is 0.
C5_GridIs24By7 ==
    Ok("update_activity_heatmap") =>
        /\ Len(response.z) = HoursPerDay
        /\ \A i \in 1..Len(response.z) : Len(response.z[i]) = DaysPerWeek
        /\ \A i \in 1..HoursPerDay, j \in 1..DaysPerWeek :
               (\A k \in 1..Len(user_activity) :
                    ~ /\ in_window(user_activity[k], now)
                      /\ Hour(user_activity[k].timestamp) = i - 1
                      /\ Weekday(user_activity[k].timestamp) = j - 1)
               => response.z[i][j] = 0

\* C6: over a window without samples each aggregation returns an empty
\* series and no error.
C6_EmptyWindowEmptySeries ==
    /\ (response.callback = "update_message_volume" /\ ~StoreDown
            /\ match_window(message_logs, now) = <<>>)
         => (response.status = "ok" /\ response.x = <<>> /\ response.y = <<>>)
    /\ (response.callback = "update_cost_chart" /\ ~StoreDown
            /\ match_window(api_costs, now) = <<>>)
         => (response.status = "ok" /\ response.x = <<>> /\ response.y = <<>>)
    /\ (response.callback = "update_rate_limit_chart" /\ ~StoreDown
            /\ match_window(rate_limits, now) = <<>>)
         => (response.status = "ok" /\ response.x = <<>> /\ response.y = <<>>)
    /\ (response.callback = "update_activity_heatmap" /\ ~StoreDown
            /\ match_window(user_activity, now) = <<>>)
         => (response.status = "ok" /\ response.z = <<>>)

WithoutCommas(text) == SelectSeq(text, LAMBDA c : c # ",")

\* the bytes of a float with its cents written on two digits
TwoDecimals(bytes) ==
    IF Len(bytes) - PointAt(bytes) = 1 THEN bytes \o <<"0">> ELSE bytes

\* C7: whatever keys are absent, update_stats returns, with "0", "0", "$0.00"
\* and "100%" for the absent ones and the stored value for the others.
C7_StatsDefaults ==
    Ok("update_stats") =>
        /\ WithoutCommas(response.children.total_messages) =
               IF redis["total_messages"] = None THEN <<"0">> ELSE redis["total_messages"]
        /\ WithoutCommas(response.children.active_users) =
               IF redis["active_users"] = None THEN <<"0">> ELSE redis["active_users"]
        /\ response.children.api_cost =
               IF redis["api_cost"] = None THEN <<"$", "0", ".", "0", "0">>
               ELSE <<"$">> \o TwoDecimals(redis["api_cost"])
        /\ response.children.rate_limit =
               IF redis["rate_limit"] = None THEN <<"1", "0", "0", "%">>
               ELSE redis["rate_limit"] \o <<"%">>

\* the cards with the cost and the rate limit absent and the messages present
C7_Witness ==
    /\ Ok("update_stats")
    /\ redis["api_cost"] = None
    /\ redis["rate_limit"] = None
    /\ redis["total_messages"] = encode_int(1234567)
    /\ response.children.total_messages =
           <<"1", ",", "2", "3", "4", ",", "5", "6", "7">>

\* C8: no collector loop ever ends; a loop whose tick failed on a store write
\* is back at the top of its loop; and every loop, whatever has failed in it
\* or in the others, goes on to start each tick the run has for it.
C8_LoopsSurviveFailures ==
    /\ [](\A t \in Threads : pc[t] \in {"tick", "insert", "except"})
    /\ \A t \in Threads : (pc[t] = "except") ~> (pc[t] = "tick")
    /\ \A t \in Threads : \A n \in 1..MaxTicks :
           (ticks_left[t] = n) ~> (ticks_left[t] < n)

\* collect_messages failed a tick (its counter moved, nothing was written)
\* and is back at the top of its loop, while collect_api_costs completed one
C8_Witness ==
    /\ pc["messages"] = "tick"
    /\ message_count > 0
    /\ redis["total_messages"] = None
    /\ message_logs = <<>>
    /\ Len(api_costs) = 1
    /\ pc["costs"] = "tick"
    /\ ticks_left = [t \in Threads |-> 0]

\* C9: the SET of a successful tick of a metric writes that metric's running
\* value under its own key and nothing else; its insert appends one sample to
\* its own collection and nothing else; the running values of the other
\* metrics stay as they are.
C9_TickTouchesOwnMetricOnly ==
    [][\A m \in Threads :
        /\ (pc[m] = "tick" /\ pc'[m] = "insert") =>
              /\ redis' = [redis EXCEPT ![Metric[m]] = SnapshotOf(m)']
              /\ mongo' = mongo
              /\ \A u \in Threads \ {m} : RunningOf(u)' = RunningOf(u)
        /\ (pc[m] = "insert" /\ pc'[m] = "tick") =>
              /\ redis' = redis
              /\ running' = running
              /\ CollectionOf(m)' = Append(CollectionOf(m), SampleOf(m, now))
              /\ \A u \in Threads \ {m} : CollectionOf(u)' = CollectionOf(u)
      ]_vars

\* a tick of collect_api_costs completed after one of collect_messages had
C9_Witness ==
    /\ Len(message_logs) = 1
    /\ Len(api_costs) = 1
    /\ redis["total_messages"] = encode_int(message_count)
    /\ redis["api_cost"] = encode_float(api_cost)
    /\ redis["active_users"] = None
    /\ redis["rate_limit"] = None

\* C10: in every step (a tick that succeeds or fails, a refresh) each
\* collection keeps the samples it holds, in place and unchanged.
C10_AppendOnly ==
    [][\A m \in Threads : Extends(CollectionOf(m)', CollectionOf(m))]_vars

\* a refresh answered from a collection that has been appended to twice
C10_Witness ==
    /\ Len(message_logs) = 2
    /\ Ok("update_message_volume")

ChartCallbacks == {"update_message_volume", "update_cost_chart",
                   "update_rate_limit_chart", "update_activity_heatmap"}

\* a step in which a callback of the dashboard answers
Refreshed == response = NoResponse /\ response' # NoResponse

\* C11: a refresh (any of the five callbacks, returning or raising) leaves
\* the Redis snapshot and the four collections as they were.
C11_RefreshReadsOnly ==
    [][Refreshed => (redis' = redis /\ mongo' = mongo)]_vars

\* update_cost_chart raised on an empty api_costs while the snapshot and
\* message_logs hold what the collector wrote
C11_Witness ==
    /\ response = Raised("update_cost_chart", "KeyError")
    /\ redis["total_messages"] # None
    /\ Len(message_logs) = 1

C14_FailedQueryYieldsEmptySeries ==
    response.callback \in ChartCallbacks => ~StoreDown

\* C15: for every in-window sample, the heatmap has a contribution in the
\* row of the sample's hour (row 1 is 00:00) and in the column of the
\* sample's weekday in the order of the labels (column 1 is Mon).
C15_CellAtHourAndWeekday ==
    Ok("update_activity_heatmap") =>
        \A k \in 1..Len(user_activity) :
            in_window(user_activity[k], now) =>
                LET i == Hour(user_activity[k].timestamp) + 1
                    j == Weekday(user_activity[k].timestamp) + 1
                IN  /\ response.y[i] = Hour(user_activity[k].timestamp)
                    /\ response.x[j] = DayLabels[j]
                    /\ i <= Len(response.z)
                    /\ j <= Len(response.z[i])
                    /\ response.z[i][j] > 0

\* the values a tick of collect_user_activity can compute, over all hours,
\* weekdays and noise draws
ActivityValues ==
    {base_users(h, d) + n : h \in 0..(HoursPerDay - 1), d \in 0..(DaysPerWeek - 1),
                            n \in randint(0 - 5, 5)}

\* C16 as stated: some tick of collect_user_activity writes a value below
\* zero; that is, the tick that computes the least of all values (weekend,
\* off hours, noise -5) has written a value below zero.
C16_ActivityGoesNegative ==
    (/\ pc["users"] = "insert"
     /\ \A v \in ActivityValues : active_users <= v)
        => parse_int(redis["active_users"]) < 0

\* C16 amended: no tick of collect_user_activity writes a value below zero;
\* the value under 'active_users' and every 'count' sample of user_activity
\* is at least 2.
C16_ActivityAtLeastTwo ==
    /\ redis["active_users"] # None => parse_int(redis["active_users"]) >= 2
    /\ \A i \in 1..Len(user_activity) : user_activity[i].count >= 2

\* a tick on a weekend in the off hours drew -5 and wrote 2 to both stores
C16_Witness ==
    /\ Weekday(now) >= 5
    /\ band(Hour(now)) = "off"
    /\ redis["active_users"] = encode_int(2)
    /\ Len(user_activity) = 1
    /\ user_activity[1].count = 2

\* C17: each cell of the heatmap holds the sum of the 'count' fields of the
\* in-window samples of its hour and day; the cells are taken where the
\* pivot puts them (the i-th hour present, the j-th day present).
C17_CellsSumCounts ==
    Ok("update_activity_heatmap") =>
        LET docs == match_window(user_activity, now)
            hours == Ascending({Hour(docs[k].timestamp) : k \in 1..Len(docs)})
            days == Ascending({day_of_week(docs[k].timestamp) : k \in 1..Len(docs)})
        IN  /\ Len(response.z) = Len(hours)
            /\ \A i \in 1..Len(response.z) :
                   /\ Len(response.z[i]) = Len(days)
                   /\ \A j \in 1..Len(response.z[i]) :
                          response.z[i][j] =
                              SumOfCounts(SelectSeq(docs, LAMBDA d :
                                  /\ Hour(d.timestamp) = hours[i]
                                  /\ day_of_week(d.timestamp) = days[j]))

\* the value field of the newest sample of a metric's collection, as the
\* bytes its collector sends for that value
NewestOf(m) ==
    LET c == CollectionOf(m)
        last == c[Len(c)]
    IN  CASE m = "users" -> encode_int(last.count)
          [] m = "costs" -> encode_float(last.cost)
          [] m = "rates" -> encode_int(last.remaining)

\* C18: for active_users, api_cost and rate_limit, when a tick completes
\* (its SET and its insert both succeeded), whatever ticks failed before it,
\* the snapshot entry is the value of the newest sample of the collection.
C18_NextTickResyncs ==
    [][\A m \in {"users", "costs", "rates"} :
          (pc[m] = "insert" /\ pc'[m] = "tick") => redis'[Metric[m]] = NewestOf(m)'
      ]_vars

\* collect_rate_limits at 17:30: a first tick drew -3 and failed on a write
\* (its SET of 97 done and its insert lost, in one of the runs that end
\* here); the second tick set 94 and inserted it
C18_Witness ==
    /\ ticks_left["rates"] = RateTicks - 2
    /\ pc["rates"] = "tick"
    /\ rate_limit = 94
    /\ redis["rate_limit"] = encode_int(94)
    /\ rate_limits = <<[timestamp |-> At(4, 17, 30), remaining |-> 94]>>

\* the 'total_messages' snapshot as a number, 0 when the key is absent
TotalMessages ==
    IF redis["total_messages"] = None THEN 0 ELSE parse_int(redis["total_messages"])

\* the logs are behind the snapshot: their sum, with the sample of a tick
\* that is between its two writes counted in, is below 'total_messages'
LogsBehind ==
    SumOfCounts(message_logs) + (IF pc["messages"] = "insert" THEN messages ELSE 0)
        < TotalMessages

\* C19: in every state of a collector run from empty stores, the sum of the
\* 'count' fields of message_logs is at most the 'total_messages' snapshot
\* (0 if absent), which is at most message_count; and once the logs are
\* behind the snapshot they stay behind it.
C19_LogsSnapshotCounterOrdered ==
    /\ [](/\ SumOfCounts(message_logs) <= TotalMessages
          /\ TotalMessages <= message_count)
    /\ [][LogsBehind => LogsBehind']_vars

\* two ticks of collect_messages at 17:30: the first advanced the counter
\* by 15 and failed on a write, the second set 20 and inserted its 5
C19_Witness ==
    /\ ticks_left["messages"] = 0
    /\ pc["messages"] = "tick"
    /\ message_count = 20
    /\ redis["total_messages"] = encode_int(20)
    /\ message_logs = <<[timestamp |-> At(4, 17, 30), count |-> 5]>>
    /\ LogsBehind

====
